---------------------------- MODULE Spec2Model ----------------------------
(***************************************************************************)
(* A model of the NVDA audio logger add-on:                                *)
(*   _wavestorage.py  WaveStorage: ring buffer of PCM frames with markers  *)
(*   _nvdaaudio.py    the WavePlayer feed/sync/stop intercepts             *)
(*   _sysaudio.py     SystemAudioRecorder: the loopback capture thread     *)
(*                                                                         *)
(* Python's None is the empty tuple and a present value v is <<v>>.        *)
(* A byte string is a sequence of integers.  A marker is <<pos, text>>.    *)
(***************************************************************************)
EXTENDS Integers, Sequences, FiniteSets, TLC

VARIABLES
    ws,        \* SpecStorage: the WaveStorage object under test
    call,      \* the last call or step made, with what identifies it
    stream,    \* SpecStorage: history, every frame-aligned byte ever handed to write()
    nextbyte,  \* SpecStorage: the value of the next byte the caller will produce
    players,   \* _nvdaaudio._players: the WavePlayers that have an entry
    info,      \* the _PlayerInfo object last created for each WavePlayer
    player_num,        \* _nvdaaudio._player_num
    max_duration_sec,  \* _nvdaaudio._max_duration_sec
    now,       \* time.perf_counter(), in seconds
    th,        \* for each WavePlayer, the locals of the feed() call in progress on it
    fed,       \* for each WavePlayer, the calls of _original_feed its feed() in progress made
    stored,    \* for each WavePlayer, the blocks its feed() in progress has written
    rec,       \* the SystemAudioRecorder object and its capture thread
    app,       \* where the owner of the SystemAudioRecorder is: start(), stop()
    storages,  \* SpecLocking: the WaveStorage of a WavePlayer and that of the recorder
    locks,     \* SpecLocking: for each of the two, the thread that holds its lock
    at,        \* SpecLocking: for each thread, the statement it is about to execute
    loc,       \* SpecLocking: for each thread, the call it is in and its locals
    nops,      \* SpecLocking: calls begun so far
    issued,    \* SpecLocking: history, for each storage the markers appended to it
    plugin     \* SpecPlugin: the GlobalPlugin, WavePlayer's methods, the notifications

storageVars == <<ws, stream, nextbyte>>
trackerVars == <<players, info, player_num, max_duration_sec, now, th, fed, stored>>
recorderVars == <<rec, app>>
lockingVars == <<storages, locks, at, loc, nops, issued>>
vars == <<ws, call, stream, nextbyte, players, info, player_num, max_duration_sec, now,
          th, fed, stored, rec, app, storages, locks, at, loc, nops, issued, plugin>>

notStorage == <<trackerVars, recorderVars, lockingVars, plugin>>
notTracker == <<storageVars, recorderVars, lockingVars, plugin>>
notRecorder == <<storageVars, trackerVars, lockingVars, plugin>>
notLocking == <<call, storageVars, trackerVars, recorderVars, plugin>>
notPlugin == <<storageVars, th, fed, stored, recorderVars, lockingVars>>

None == <<>>
Some(v) == <<v>>
Val(o) == o[1]

Min(a, b) == IF a <= b THEN a ELSE b
Max(a, b) == IF a >= b THEN a ELSE b

(***************************************************************************)
(* Python sequence slicing, for indices >= 0: s[a:b], s[a:], s[:b], s[-n:] *)
(* and s[:-n], and the slice assignment s[a:b] = x of a bytearray.         *)
(***************************************************************************)
Slice(s, a, b) ==
    LET lo == Min(a, Len(s))
        hi == Min(b, Len(s))
    IN  IF hi <= lo THEN <<>> ELSE SubSeq(s, lo + 1, hi)

SliceFrom(s, a) == Slice(s, a, Len(s))

\* s[-n:]: -0 is 0, so s[-0:] is the whole of s
SliceLast(s, n) == IF n = 0 THEN s ELSE SliceFrom(s, Max(Len(s) - n, 0))

\* s[:-n] with n > 0
SliceDropLast(s, n) == Slice(s, 0, Max(Len(s) - n, 0))

SliceAssign(s, a, b, x) ==
    LET lo == Min(a, Len(s))
        hi == Max(Min(b, Len(s)), lo)
    IN  Slice(s, 0, lo) \o x \o SliceFrom(s, hi)

(***************************************************************************)
(* floor(a * b / c) for b >= 0 and 0 < c <= 10^9, as Python's unbounded    *)
(* integers compute  a * b // c.  The product is never formed: MulDivMod   *)
(* returns <<q, r>> with a * b = q * c + r and 0 <= r < c, by doubling, so *)
(* that every intermediate value stays within 32 bits.                     *)
(***************************************************************************)
RECURSIVE MulDivMod(_, _, _)
MulDivMod(a, b, c) ==
    IF b = 0 THEN <<0, 0>>
    ELSE LET h  == MulDivMod(a, b \div 2, c)
             d  == 2 * h[2]
             q1 == 2 * h[1] + (d \div c)
             r1 == d % c
             s  == r1 + (a % c)
         IN  IF b % 2 = 0 THEN <<q1, r1>>
             ELSE <<q1 + (a \div c) + (s \div c), s % c>>

\* the doubling runs over the smaller factor
FloorMulDiv(a, b, c) ==
    IF 0 <= a /\ a < b THEN MulDivMod(b, a, c)[1] ELSE MulDivMod(a, b, c)[1]

NS_PER_SEC == 1000000000

(***************************************************************************)
(* WaveStorage                                                             *)
(***************************************************************************)
WaveStorage(nchannels, sampwidth, framerate, maxframes) ==
    [nchannels |-> nchannels,
     sampwidth |-> sampwidth,
     framerate |-> framerate,
     framesize |-> sampwidth * nchannels,
     maxframes |-> maxframes,
     maxsize |-> IF maxframes # None THEN Some(Val(maxframes) * (sampwidth * nchannels))
                 ELSE None,
     buffer |-> <<>>,
     writeidx |-> 0,
     nsampleswritten |-> 0,
     perf_counter_ns |-> None,
     markers |-> <<>>]

\* remove_old_markers with the comparison off by one: the marker on the first
\* retained frame is dropped
remove_old_markers_strict(s) ==
    IF s.maxframes # None
    THEN LET firstframe == s.nsampleswritten - Val(s.maxframes)
             keep(m) == m[1] > firstframe
         IN  [s EXCEPT !.markers = SelectSeq(s.markers, keep)]
    ELSE s

remove_old_markers(s) ==
    IF s.maxframes # None
    THEN LET firstframe == s.nsampleswritten - Val(s.maxframes)
             keep(m) == m[1] >= firstframe
         IN  [s EXCEPT !.markers = SelectSeq(s.markers, keep)]
    ELSE s

addmarker(s, text) ==
    remove_old_markers([s EXCEPT !.markers = Append(@, <<s.nsampleswritten, text>>)])

\* sample_offset with a division that truncates toward zero
sample_offset_trunc(s, perf_counter_ns) ==
    LET delta == perf_counter_ns - Val(s.perf_counter_ns)
    IN  IF delta >= 0 THEN FloorMulDiv(delta, s.framerate, NS_PER_SEC)
        ELSE 0 - FloorMulDiv(0 - delta, s.framerate, NS_PER_SEC)

sample_offset(s, perf_counter_ns) ==
    FloorMulDiv(perf_counter_ns - Val(s.perf_counter_ns), s.framerate, NS_PER_SEC)

addmarker_at_time(s, perf_counter_ns, text) ==
    IF s.perf_counter_ns = None
    THEN addmarker(s, text)
    ELSE remove_old_markers(
            [s EXCEPT !.markers =
                Append(@, <<s.nsampleswritten + sample_offset(s, perf_counter_ns), text>>)])

\* write_align that reports the misalignment and keeps the partial frame
write_align_keep(s, data) ==
    IF Len(data) % s.framesize # 0
    THEN <<addmarker(s, "!WAVE MISALIGNED"), data>>
    ELSE <<s, data>>

\* write(), lines 55-61: the misaligned tail is cut off and reported by a marker
write_align(s, data) ==
    LET size == Len(data)
    IN  IF size % s.framesize # 0
        THEN <<addmarker(s, "!WAVE MISALIGNED"), SliceDropLast(data, size % s.framesize)>>
        ELSE <<s, data>>

\* write(), lines 64-67: the data alone fills the buffer
write_whole(s, data) ==
    [s EXCEPT !.buffer = SliceLast(data, Val(s.maxsize)), !.writeidx = 0]

\* write_growing that wraps the remainder and leaves the index of the oldest byte at 0
write_growing_noidx(s, data) ==
    LET size  == Len(data)
        space == Val(s.maxsize) - Len(s.buffer)
    IN  IF space >= size
        THEN [s EXCEPT !.buffer = @ \o data]
        ELSE LET remaining == size - space
                 grown     == s.buffer \o Slice(data, 0, space)
             IN  [s EXCEPT
                   !.buffer = SliceAssign(grown, 0, remaining, SliceFrom(data, space))]

\* write(), lines 70-77: the buffer is still growing
write_growing(s, data) ==
    LET size  == Len(data)
        space == Val(s.maxsize) - Len(s.buffer)
    IN  IF space >= size
        THEN [s EXCEPT !.buffer = @ \o data]
        ELSE LET remaining == size - space
                 grown     == s.buffer \o Slice(data, 0, space)
             IN  [s EXCEPT
                   !.buffer = SliceAssign(grown, 0, remaining, SliceFrom(data, space)),
                   !.writeidx = remaining]

\* write(), lines 78-87: the buffer is full, the oldest data is overwritten
write_full(s, data) ==
    LET size    == Len(data)
        maxsize == Val(s.maxsize)
    IN  IF s.writeidx + size <= maxsize
        THEN [s EXCEPT
               !.buffer = SliceAssign(@, s.writeidx, s.writeidx + size, data),
               !.writeidx = @ + size]
        ELSE LET space     == maxsize - s.writeidx
                 remaining == size - space
                 first     == SliceAssign(s.buffer, s.writeidx, maxsize,
                                          Slice(data, 0, space))
             IN  [s EXCEPT
                   !.buffer = SliceAssign(first, 0, remaining, SliceFrom(data, space)),
                   !.writeidx = remaining]

\* write_buffer that keeps only the last data when there is no limit
write_buffer_replace(s, data) ==
    IF s.maxsize = None
    THEN [s EXCEPT !.buffer = data]
    ELSE IF Len(data) >= Val(s.maxsize)
    THEN write_whole(s, data)
    ELSE IF Val(s.maxsize) - Len(s.buffer) > 0
    THEN write_growing(s, data)
    ELSE write_full(s, data)

\* write(), lines 62-87: the ring buffer and the index of its oldest byte
write_buffer(s, data) ==
    IF s.maxsize = None
    THEN [s EXCEPT !.buffer = @ \o data]
    ELSE IF Len(data) >= Val(s.maxsize)
    THEN write_whole(s, data)
    ELSE IF Val(s.maxsize) - Len(s.buffer) > 0
    THEN write_growing(s, data)
    ELSE write_full(s, data)

\* write(), line 88
write_count(s, size) ==
    [s EXCEPT !.nsampleswritten = @ + (size \div s.framesize)]

\* write(), lines 89-91
write_anchor(s, size, perf_counter_ns) ==
    IF perf_counter_ns # None
    THEN LET duration_ns == FloorMulDiv(size \div s.framesize, NS_PER_SEC, s.framerate)
         IN  [s EXCEPT !.perf_counter_ns = Some(Val(perf_counter_ns) + duration_ns)]
    ELSE s

write(s, data, perf_counter_ns) ==
    LET al == write_align(s, data)
        d  == al[2]
    IN  write_anchor(write_count(write_buffer(al[1], d), Len(d)), Len(d), perf_counter_ns)

getbytes(s) ==
    IF s.maxsize = None \/ Len(s.buffer) < Val(s.maxsize)
    THEN s.buffer
    ELSE Slice(s.buffer, s.writeidx, Val(s.maxsize)) \o Slice(s.buffer, 0, s.writeidx)

\* getwavecuedata(): the cue points it packs, one record per marker; the
\* storage after its pruning is returned with them
cue_points(s) ==
    LET firstframe == IF s.maxframes # None
                      THEN Max(s.nsampleswritten - Val(s.maxframes), 0) ELSE 0
    IN  [i \in 1..Len(s.markers) |->
            [id |-> i, pos |-> s.markers[i][1], offset |-> s.markers[i][1] - firstframe,
             text |-> s.markers[i][2]]]

getwavecuedata(s) ==
    LET pruned == remove_old_markers(s)
    IN  <<pruned, cue_points(pruned)>>

(***************************************************************************)
(* SpecStorage: one WaveStorage driven by a single caller.                 *)
(***************************************************************************)
MaxTotalBytes == 7      \* bytes handed to write() over the life of the storage
MaxMarkers == 2         \* markers in the list before a call that adds one

\* <<nchannels, sampwidth, framerate, maxframes>>
Configs == {<<2, 1, 48000, None>>, <<1, 1, 7, Some(3)>>,
            <<2, 1, 48000, Some(2)>>, <<2, 1, 7, Some(1)>>}
WriteTimes == {None, Some(0)}
MarkerDeltas == {0 - 400000000, 0 - 1, 10000000}
Labels == {"a"}

NoCall == [op |-> "init", ts |-> None]

\* the parts of the add-on a specification leaves out stay as they are here
NoStorage == ws = None /\ stream = <<>> /\ nextbyte = 1
NoTracker ==
    /\ players = {} /\ info = <<>> /\ player_num = 1 /\ max_duration_sec = 0
    /\ now = 0 /\ th = <<>> /\ fed = <<>> /\ stored = <<>>
NoRecorder == rec = None /\ app = ""
NoLocking ==
    storages = <<>> /\ locks = <<>> /\ at = <<>> /\ loc = <<>> /\ nops = 0 /\ issued = <<>>
NoPlugin == plugin = None

InitStorage ==
    /\ \E c \in Configs : ws = WaveStorage(c[1], c[2], c[3], c[4])
    /\ call = NoCall
    /\ stream = <<>>
    /\ nextbyte = 1
    /\ NoTracker
    /\ NoRecorder
    /\ NoLocking
    /\ NoPlugin

Bytes(first, n) == [i \in 1..n |-> first + i - 1]

\* the bytes of the write() that takes nextbyte from a to b
Written(a, b) == Bytes(a, b - a)

Write ==
    \E n \in 0..(MaxTotalBytes + 1 - nextbyte), ts \in WriteTimes :
        LET data == Bytes(nextbyte, n)
        IN  /\ (n % ws.framesize # 0) => Len(ws.markers) < MaxMarkers
            /\ ws' = write(ws, data, ts)
            /\ call' = [op |-> "write", ts |-> ts]
            /\ stream' = stream \o SubSeq(data, 1, (n \div ws.framesize) * ws.framesize)
            /\ nextbyte' = nextbyte + n
            /\ UNCHANGED notStorage

AddMarker ==
    \E text \in Labels :
        /\ Len(ws.markers) < MaxMarkers
        /\ ws' = addmarker(ws, text)
        /\ call' = [op |-> "addmarker", ts |-> None]
        /\ UNCHANGED <<stream, nextbyte, notStorage>>

\* the caller's clock reading, given relative to the storage's anchor when it has one
AddMarkerAtTime ==
    \E text \in Labels, d \in MarkerDeltas :
        LET t == IF ws.perf_counter_ns = None THEN 400000000 + d
                 ELSE Val(ws.perf_counter_ns) + d
        IN  /\ Len(ws.markers) < MaxMarkers
            /\ ws' = addmarker_at_time(ws, t, text)
            /\ call' = [op |-> "addmarker_at_time", ts |-> Some(t)]
            /\ UNCHANGED <<stream, nextbyte, notStorage>>

GetWaveCueData ==
    /\ ws' = getwavecuedata(ws)[1]
    /\ call' = [op |-> "getwavecuedata", ts |-> None]
    /\ UNCHANGED <<stream, nextbyte, notStorage>>

NextStorage == Write \/ AddMarker \/ AddMarkerAtTime \/ GetWaveCueData

SpecStorage == InitStorage /\ [][NextStorage]_vars

(***************************************************************************)
(* Properties of WaveStorage, checked under SpecStorage.                   *)
(***************************************************************************)
MISALIGNED == "!WAVE MISALIGNED"

Last(q) == q[Len(q)]
Range(q) == {q[i] : i \in 1..Len(q)}

\* the last n frames of a byte string whose frames are fs bytes each
LastFrames(q, n, fs) == SubSeq(q, Len(q) - n * fs + 1, Len(q))

\* the first frame still in the window of a bounded storage
FirstFrame(s) == s.nsampleswritten - Val(s.maxframes)

InWindow(s, q) ==
    IF s.maxframes = None THEN q
    ELSE LET keep(m) == m[1] >= FirstFrame(s) IN SelectSeq(q, keep)

\* C1: in a bounded storage getbytes() is the last min(totalFramesWritten,
\* capacity) frames of everything frame-aligned that was written, in order.
C1_WrapCorrectness ==
    ws.maxframes # None =>
        /\ ws.nsampleswritten * ws.framesize = Len(stream)
        /\ getbytes(ws) = LastFrames(stream, Min(ws.nsampleswritten, Val(ws.maxframes)),
                                     ws.framesize)

\* a wrapped buffer whose oldest byte is in the middle, after a write
C1_Witness ==
    /\ ws.maxframes # None
    /\ call.op = "write"
    /\ ws.nsampleswritten > Val(ws.maxframes)
    /\ ws.writeidx > 0
    /\ ws.writeidx < Val(ws.maxsize)

\* a storage of one frame after three frames were written to it
C1_WitnessWhole ==
    /\ ws.maxframes # None
    /\ call.op = "write"
    /\ Val(ws.maxframes) = 1
    /\ ws.framesize = 2
    /\ getbytes(ws) = <<5, 6>>
    /\ Len(stream) = 6

\* C2: a write of frameSize*N + r bytes, 0 < r < frameSize, stores the first N
\* frames, adds N to totalFramesWritten, stores none of the r trailing bytes and
\* adds one "!WAVE MISALIGNED" marker at the value totalFramesWritten had before
\* the write; an aligned write adds no marker.
C2_Alignment ==
    [][call'.op = "write" =>
        LET data == Written(nextbyte, nextbyte')
            fs   == ws.framesize
            N    == Len(data) \div fs
            r    == Len(data) % fs
            tail == {data[i] : i \in (N * fs + 1)..Len(data)}
        IN  /\ ws'.nsampleswritten = ws.nsampleswritten + N
            /\ stream' = stream \o SubSeq(data, 1, N * fs)
            /\ Range(ws'.buffer) \cap tail = {}
            /\ Len(ws'.buffer) % fs = 0
            /\ IF r # 0
               THEN ws'.markers =
                        Append(InWindow(ws, ws.markers), <<ws.nsampleswritten, MISALIGNED>>)
               ELSE ws'.markers = ws.markers
    ]_vars

\* a misaligned write of at least one whole frame has just happened
C2_Witness ==
    /\ call.op = "write"
    /\ Len(stream) + 1 < nextbyte
    /\ Len(ws.markers) > 0
    /\ Last(ws.markers)[2] = MISALIGNED
    /\ Last(ws.markers)[1] < ws.nsampleswritten
    /\ Last(ws.markers)[1] > 0

Pruning == {"addmarker", "addmarker_at_time", "getwavecuedata"}

\* C3: in a bounded storage, right after a prune (addmarker, addmarker_at_time,
\* getwavecuedata) every retained marker is at or after totalFramesWritten -
\* capacityFrames and every earlier marker at or after that bound is still there,
\* in order; getwavecuedata() never emits a marker before the bound.
C3_MarkerPruning ==
    [][(ws.maxframes # None /\ call'.op \in Pruning) =>
        LET old == InWindow(ws, ws.markers)
        IN  /\ \A i \in 1..Len(ws'.markers) : ws'.markers[i][1] >= FirstFrame(ws')
            /\ Len(ws'.markers) >= Len(old)
            /\ SubSeq(ws'.markers, 1, Len(old)) = old
            /\ call'.op = "getwavecuedata" =>
                  /\ ws'.markers = old
                  /\ \A i \in 1..Len(cue_points(ws')) :
                        cue_points(ws')[i].pos >= FirstFrame(ws')
    ]_vars

\* getwavecuedata() has just run on a storage that lost the marker of a
\* misaligned write (the dropped bytes show there was one) and kept another
C3_Witness ==
    /\ ws.maxframes # None
    /\ call.op = "getwavecuedata"
    /\ Len(stream) + 1 < nextbyte
    /\ \A i \in 1..Len(ws.markers) : ws.markers[i][2] # MISALIGNED
    /\ Len(ws.markers) > 0
    /\ ws.markers[1][1] = FirstFrame(ws)

\* C10: addmarker_at_time(t, label) without an anchor appends the marker at
\* totalFramesWritten, as addmarker does; with an anchor A it appends it at
\* totalFramesWritten + floor((t - A) * frameRate / 10^9) (+480 at 48000 frames
\* per second and 10 ms); the list is then pruned as after any insertion.  A
\* timestamped write sets the anchor to timestamp + floor(frames * 10^9 /
\* frameRate), a write without timestamp leaves it alone, and so do the markers.
C10_TimeAnchoredMarkers ==
    [][/\ call'.op = "addmarker_at_time" =>
            LET t   == Val(call'.ts)
                d   == t - Val(ws.perf_counter_ns)
                pos == IF ws.perf_counter_ns = None THEN ws.nsampleswritten
                       ELSE ws.nsampleswritten + FloorMulDiv(d, ws.framerate, NS_PER_SEC)
            IN  /\ \E text \in Labels :
                      ws'.markers = InWindow(ws, Append(ws.markers, <<pos, text>>))
                /\ ws'.perf_counter_ns = ws.perf_counter_ns
                /\ (ws.perf_counter_ns # None /\ ws.framerate = 48000 /\ d = 10000000)
                      => pos = ws.nsampleswritten + 480
                /\ (ws.perf_counter_ns # None /\ d = 0 - 1)
                      => pos = ws.nsampleswritten - 1
                /\ (ws.perf_counter_ns # None /\ ws.framerate = 7 /\ d = 0 - 400000000)
                      => pos = ws.nsampleswritten - 3
       /\ call'.op = "addmarker" => ws'.perf_counter_ns = ws.perf_counter_ns
       /\ call'.op = "write" =>
            LET N == (nextbyte' - nextbyte) \div ws.framesize
            IN  IF call'.ts = None
                THEN ws'.perf_counter_ns = ws.perf_counter_ns
                ELSE ws'.perf_counter_ns =
                        Some(Val(call'.ts) + FloorMulDiv(N, NS_PER_SEC, ws.framerate))
    ]_vars

\* a marker requested 10 ms after the anchor of a 48000 Hz storage sits 480
\* frames after the frames written
C10_Witness ==
    /\ call.op = "addmarker_at_time"
    /\ ws.framerate = 48000
    /\ ws.perf_counter_ns # None
    /\ ws.nsampleswritten > 0
    /\ call.ts = Some(Val(ws.perf_counter_ns) + 10000000)
    /\ Len(ws.markers) > 0
    /\ Last(ws.markers)[1] = ws.nsampleswritten + 480

\* C11: every marker of the storage has a sample position of 0 or more.
C11_MarkersNonNegative ==
    \A i \in 1..Len(ws.markers) : ws.markers[i][1] >= 0

\* C12: the sample positions of the markers never decrease along the list.
C12_MarkerOrder ==
    \A i \in 1..Len(ws.markers) : \A j \in i..Len(ws.markers) :
        ws.markers[i][1] <= ws.markers[j][1]

\* the frames getbytes() returns
RetainedFrames(s) ==
    IF s.maxframes = None THEN s.nsampleswritten
    ELSE Min(s.nsampleswritten, Val(s.maxframes))

\* C13: getwavecuedata() emits one cue point per retained marker, in list
\* order, with ids 1..n and the marker's label; the sample offset of each is
\* its position less max(totalFramesWritten - capacityFrames, 0), the position
\* itself when unbounded, and lies between 0 and the number of retained frames.
C13_CueSerialization ==
    [][call'.op = "getwavecuedata" =>
        LET cp    == getwavecuedata(ws)[2]
            first == IF ws'.maxframes = None THEN 0 ELSE Max(FirstFrame(ws'), 0)
        IN  /\ Len(cp) = Len(ws'.markers)
            /\ \A i \in 1..Len(cp) :
                  /\ cp[i].id = i
                  /\ cp[i].text = ws'.markers[i][2]
                  /\ cp[i].pos = ws'.markers[i][1]
                  /\ cp[i].offset = ws'.markers[i][1] - first
                  /\ 0 <= cp[i].offset
                  /\ cp[i].offset <= RetainedFrames(ws')
    ]_vars

\* C14: a storage without capacity limit never truncates or wraps: getbytes()
\* is everything frame-aligned that was written, its length never decreases
\* and is totalFramesWritten * frameSize, and no call removes a marker.
C14_UnboundedMode ==
    [][ws.maxframes = None =>
        /\ getbytes(ws') = stream'
        /\ Len(getbytes(ws')) >= Len(getbytes(ws))
        /\ Len(getbytes(ws')) = ws'.nsampleswritten * ws'.framesize
        /\ ws'.writeidx = 0
        /\ Len(ws'.markers) >= Len(ws.markers)
        /\ SubSeq(ws'.markers, 1, Len(ws.markers)) = ws.markers
        /\ Len(getwavecuedata(ws')[2]) = Len(ws'.markers)
    ]_vars

\* an unbounded storage that holds the three frames written to it and two
\* markers, one of them before the first frame
C14_Witness ==
    /\ ws.maxframes = None
    /\ call.op = "write"
    /\ ws.nsampleswritten = 3
    /\ getbytes(ws) = Bytes(1, 6)
    /\ Len(ws.markers) = 2
    /\ \E i \in 1..2 : ws.markers[i][1] < 0

(***************************************************************************)
(* _nvdaaudio: the intercepts installed on WavePlayer.                     *)
(*                                                                         *)
(* A WavePlayer is fed by one thread at a time; different WavePlayers are  *)
(* fed concurrently.  A feed() that records is a sequence of steps: the    *)
(* entry of the call (lines 59-94), then for each block the call of        *)
(* _original_feed and the acquisition of the entry's lock (lines 98-99)    *)
(* and the write under it (lines 100-101), then the sweep (lines 103-106). *)
(* The data argument is [kind, mem, null]: kind is "None", "Buffer",       *)
(* "c_void_p" or "Pointer", mem the bytes of the buffer or at the address. *)
(***************************************************************************)
WavePlayers == {"p1", "p2", "p3"}

\* the attributes of the WavePlayer objects the host has open
purpose(p) == IF p = "p3" THEN "SOUNDS" ELSE "SPEECH"
channels(p) == 1
bitsPerSample(p) == 8
samplesPerSec(p) == IF p = "p2" THEN 10 ELSE 5

MaxTime == 2            \* the clock stops there
MaxStreamBytes == 2     \* bytes one WavePlayer's feeds record in all

Durations == {1}        \* the max_duration_sec given to start()

NoData == [kind |-> "None", mem |-> <<>>, null |-> TRUE]
Buffer(mem) == [kind |-> "Buffer", mem |-> mem, null |-> FALSE]
Address(kind, mem) == [kind |-> kind, mem |-> mem, null |-> FALSE]
NullPtr == [kind |-> "c_void_p", mem |-> <<>>, null |-> TRUE]

\* <<data, size, onDone>> as callers give them: a size is never beyond the data
FeedArgs == {<<NoData, None, None>>,
             <<Buffer(Bytes(1, 3)), Some(0), Some("onDone")>>,
             <<NullPtr, Some(2), Some("onDone")>>,
             <<Buffer(Bytes(1, 1)), None, None>>,
             <<Address("c_void_p", Bytes(1, 2)), Some(2), Some("onDone")>>,
             <<Address("Pointer", Bytes(1, 3)), Some(3), Some("onDone")>>}

OriginalCall(data, size, onDone) == [data |-> data, size |-> size, onDone |-> onDone]

\* _player_feed, lines 63-79
normalize(data, size) ==
    IF size # None
    THEN LET d == IF data.kind = "None" THEN None
                  ELSE IF data.kind = "c_void_p"
                  THEN IF data.null THEN None ELSE Some(Slice(data.mem, 0, Val(size)))
                  ELSE IF data.kind = "Pointer"
                  THEN Some(Slice(data.mem, 0, Val(size)))
                  ELSE Some(data.mem)
         IN  IF d # None THEN Some(Slice(Val(d), 0, Val(size))) ELSE None
    ELSE IF data.kind = "None" THEN None ELSE Some(data.mem)

\* a test for None alone: an empty view is taken for data
falsy_none(d) == d = None

\* "not d" for d None or a memoryview
falsy(d) == d = None \/ Len(Val(d)) = 0

\* _player_feed, lines 90-91
maxblocksize(p) ==
    LET framesize == (channels(p) * bitsPerSample(p)) \div 8
    IN  (framesize * samplesPerSec(p)) \div 5

PlayerInfo(p, num, clock, duration) ==
    [fileName |-> num,
     lastActivePerfCounter |-> clock,
     waveStorage |-> WaveStorage(channels(p), bitsPerSample(p) \div 8, samplesPerSec(p),
                                 Some(samplesPerSec(p) * duration)),
     lock |-> None]

Idle == [pc |-> "idle", data |-> NoData, d |-> <<>>, size |-> None, onDone |-> None,
         i |-> 0]

\* the last step of the tracker: for the entry of a feed() the WavePlayer, the
\* caller's arguments and the call of _original_feed it made, if it made one
Step(op) == [op |-> op, player |-> "", args |-> <<>>, out |-> <<>>]

\* the state start() leaves: the intercepts installed, no entry yet
InitTracker ==
    /\ \E dur \in Durations : max_duration_sec = dur
    /\ player_num = 1
    /\ players = {}
    /\ info = [p \in WavePlayers |-> None]
    /\ now = 0
    /\ th = [p \in WavePlayers |-> Idle]
    /\ fed = [p \in WavePlayers |-> <<>>]
    /\ stored = [p \in WavePlayers |-> <<>>]
    /\ call = Step("start")
    /\ NoStorage
    /\ NoRecorder
    /\ NoLocking
    /\ NoPlugin

\* time passes
Tick ==
    /\ now < MaxTime
    /\ now' = now + 1
    /\ call' = Step("step")
    /\ UNCHANGED <<players, info, player_num, max_duration_sec, th, fed, stored, notTracker>>

Recorded(p) == IF info[p] = None THEN 0
               ELSE Val(info[p]).waveStorage.nsampleswritten *
                    Val(info[p]).waveStorage.framesize

\* _player_feed, lines 59-61 and 80-82: the call is handed on as it came
PassThrough(p, data, size, onDone) ==
    /\ call' = [op |-> "feed", player |-> p, args |-> OriginalCall(data, size, onDone),
                out |-> <<OriginalCall(data, size, onDone)>>]
    /\ UNCHANGED <<players, info, player_num, th, fed>>

\* _player_feed, lines 93-96: the end of the loop's range
loopsize(d, size) == IF size = None THEN Len(d) ELSE Val(size)

\* _player_feed, lines 84-94: the entry is looked up or made, the loop is set up
Record(p, data, size, onDone) ==
    LET d == Val(normalize(data, size))
    IN  /\ IF p \in players
           THEN UNCHANGED <<players, info, player_num>>
           ELSE /\ info' = [info EXCEPT
                              ![p] = Some(PlayerInfo(p, player_num, now, max_duration_sec))]
                /\ player_num' = player_num + 1
                /\ players' = players \cup {p}
        /\ th' = [th EXCEPT ![p] = [pc |-> IF loopsize(d, size) > 0 THEN "forward"
                                           ELSE "sweep",
                                    data |-> data, d |-> d, size |-> size,
                                    onDone |-> onDone, i |-> 0]]
        /\ fed' = [fed EXCEPT ![p] = <<>>]
        /\ call' = [op |-> "feed", player |-> p, args |-> OriginalCall(data, size, onDone),
                    out |-> <<>>]

\* _player_feed up to the loop, lines 59-94
FeedCall(p) ==
    \E a \in FeedArgs :
        /\ th[p].pc = "idle"
        /\ normalize(a[1], a[2]) # None =>
              Recorded(p) + Len(Val(normalize(a[1], a[2]))) <= MaxStreamBytes
        /\ IF purpose(p) # "SPEECH" \/ falsy(normalize(a[1], a[2]))
           THEN PassThrough(p, a[1], a[2], a[3])
           ELSE Record(p, a[1], a[2], a[3])
        /\ UNCHANGED <<max_duration_sec, now, stored, notTracker>>

\* _player_feed, lines 97-98
block(p) == Slice(th[p].d, th[p].i, th[p].i + maxblocksize(p))

\* Forward that goes on to the write without taking the lock
Forward_nolock(p) ==
    LET c == OriginalCall(Buffer(block(p)), Some(Len(block(p))), th[p].onDone)
    IN  /\ th[p].pc = "forward"
        /\ fed' = [fed EXCEPT ![p] = Append(@, c)]
        /\ th' = [th EXCEPT ![p].pc = "locked"]
        /\ call' = Step("step")
        /\ UNCHANGED <<players, info, player_num, max_duration_sec, now, stored,
                       notTracker>>

\* _player_feed, line 98 and, once _original_feed has returned, the acquisition
\* of the entry's lock, line 99
Forward(p) ==
    LET c == OriginalCall(Buffer(block(p)), Some(Len(block(p))), th[p].onDone)
    IN  /\ th[p].pc = "forward"
        /\ fed' = [fed EXCEPT ![p] = Append(@, c)]
        /\ Val(info[p]).lock = None
        /\ info' = [info EXCEPT ![p] = Some([Val(@) EXCEPT !.lock = Some(p)])]
        /\ th' = [th EXCEPT ![p].pc = "locked"]
        /\ call' = Step("step")
        /\ UNCHANGED <<players, player_num, max_duration_sec, now, stored, notTracker>>

\* _player_feed, lines 100-101, the release of the lock and the loop's next turn
WriteBlock(p) ==
    /\ th[p].pc = "locked"
    /\ info' = [info EXCEPT
                 ![p] = Some([Val(@) EXCEPT
                                !.waveStorage = write(@, block(p), None),
                                !.lastActivePerfCounter = now,
                                !.lock = None])]
    /\ stored' = [stored EXCEPT ![p] = Append(@, block(p))]
    /\ th' = [th EXCEPT
               ![p].i = @ + maxblocksize(p),
               ![p].pc = IF th[p].i + maxblocksize(p) < loopsize(th[p].d, th[p].size)
                         THEN "forward" ELSE "sweep"]
    /\ call' = Step("step")
    /\ UNCHANGED <<players, player_num, max_duration_sec, now, fed, notTracker>>

\* _player_feed, line 105
expired(v, clock, duration) == v.lastActivePerfCounter - clock > duration

\* _player_feed, lines 103-106
Sweep(p) ==
    /\ th[p].pc = "sweep"
    /\ players' = {k \in players : ~expired(Val(info[k]), now, max_duration_sec)}
    /\ th' = [th EXCEPT ![p] = Idle]
    /\ fed' = [fed EXCEPT ![p] = <<>>]
    /\ stored' = [stored EXCEPT ![p] = <<>>]
    /\ call' = Step("step")
    /\ UNCHANGED <<info, player_num, max_duration_sec, now, notTracker>>

NextTracker ==
    \/ Tick
    \/ \E p \in WavePlayers : FeedCall(p)
    \/ \E p \in WavePlayers : Forward(p)
    \/ \E p \in WavePlayers : WriteBlock(p)
    \/ \E p \in WavePlayers : Sweep(p)

SpecTracker == InitTracker /\ [][NextTracker]_vars

(***************************************************************************)
(* Properties of the feed intercept, checked under SpecTracker.            *)
(***************************************************************************)
RECURSIVE Concat(_)
Concat(blocks) == IF blocks = <<>> THEN <<>> ELSE blocks[1] \o Concat(Tail(blocks))

Forwarded(p) == [i \in 1..Len(fed[p]) |-> fed[p][i].data.mem]

\* a feed() that carries no data: no data object, a null pointer, a size of 0 or
\* an empty buffer
EmptyFeed(a) ==
    \/ a.data.kind = "None"
    \/ a.data.null
    \/ a.size = Some(0)
    \/ Len(a.data.mem) = 0

\* the bytes a feed() carries
CallerBytes(data, size) ==
    IF size = None THEN data.mem ELSE SubSeq(data.mem, 1, Val(size))

Expired(k) == now - Val(info[k]).lastActivePerfCounter > max_duration_sec

\* C4: after the sweep that ends a recording feed() on one WavePlayer, no entry
\* of another WavePlayer whose last-active time is older than max_duration_sec
\* is left in _players, and every entry active within the window is still there.
C4_IdleEviction ==
    [][\A p \in WavePlayers :
          th[p].pc = "sweep" /\ th'[p].pc = "idle" =>
              /\ \A k \in players' \ {p} : ~Expired(k)'
              /\ \A k \in players : ~Expired(k) => k \in players'
    ]_vars

\* C7: a feed() on a WavePlayer that is not for speech, or one that carries no
\* data, calls _original_feed once with the caller's arguments and changes
\* nothing else: no entry made or removed, no storage written, no last-active
\* time, counter or call in progress touched.
C7_PassThrough ==
    [][(/\ call'.op = "feed"
        /\ purpose(call'.player) # "SPEECH" \/ EmptyFeed(call'.args))
       => /\ call'.out = <<call'.args>>
          /\ UNCHANGED trackerVars
    ]_vars

\* a feed() of size 0 on a speech WavePlayer that has an entry was handed on
C7_Witness ==
    /\ call.op = "feed"
    /\ purpose(call.player) = "SPEECH"
    /\ call.player \in players
    /\ call.args.size = Some(0)
    /\ Len(call.args.data.mem) > 0
    /\ call.out = <<call.args>>

\* a feed() with data on a WavePlayer that is not for speech was handed on
C7_WitnessPurpose ==
    /\ call.op = "feed"
    /\ purpose(call.player) # "SPEECH"
    /\ ~EmptyFeed(call.args)
    /\ players # {}

\* what holds of a recording feed() on p at every step of it
SubBlocks(p) ==
    LET limit == (((channels(p) * bitsPerSample(p)) \div 8) * samplesPerSec(p)) \div 5
        sent  == Forwarded(p)
        e     == Val(info[p])
        bytes == getbytes(e.waveStorage)
        kept  == Concat(stored[p])
    IN  \* each forwarded block is at most 200 ms long and says its length
        /\ \A i \in 1..Len(fed[p]) :
              /\ Len(sent[i]) \in 1..limit
              /\ fed[p][i].size = Some(Len(sent[i]))
              /\ i < Len(fed[p]) => Len(sent[i]) = limit
        \* the blocks are consecutive pieces of the caller's data, in order
        /\ Concat(sent) = SubSeq(CallerBytes(th[p].data, th[p].size), 1, Len(Concat(sent)))
        \* a block is written only after it was forwarded
        /\ Len(stored[p]) <= Len(sent)
        /\ stored[p] = SubSeq(sent, 1, Len(stored[p]))
        /\ Len(sent) - Len(stored[p]) = IF th[p].pc = "locked" THEN 1 ELSE 0
        \* the write is made under the entry's lock
        /\ th[p].pc = "locked" <=> e.lock = Some(p)
        \* the storage ends with what this call wrote
        /\ Len(bytes) >= Len(kept)
        /\ SubSeq(bytes, Len(bytes) - Len(kept) + 1, Len(bytes)) = kept

\* C8: a recording feed() forwards its data in consecutive blocks of at most
\* framesize * samplesPerSec // 5 bytes; each block is first given to
\* _original_feed and then, under the entry's lock, written to the entry's
\* storage, and the last-active time is set to the clock; the storage never
\* holds a byte that was not forwarded before.
C8_SubBlockProtocol ==
    [][\A p \in WavePlayers :
          IF th'[p] = th[p]
          THEN \* not this WavePlayer's step: nothing of its recording changes
               /\ fed'[p] = fed[p]
               /\ stored'[p] = stored[p]
               /\ info[p] # None => Val(info'[p]).waveStorage = Val(info[p]).waveStorage
          ELSE /\ th'[p].pc # "idle" => SubBlocks(p)'
               /\ IF th[p].pc = "locked"
                  THEN \* the write: the block just forwarded, the clock
                       /\ stored'[p] = Append(stored[p], Last(fed[p]).data.mem)
                       /\ Val(info'[p]).waveStorage.nsampleswritten =
                             Val(info[p]).waveStorage.nsampleswritten
                                + Len(Last(fed[p]).data.mem)
                       /\ Val(info'[p]).lastActivePerfCounter = now
                  ELSE (info[p] # None /\ th[p].pc # "idle") =>
                          Val(info'[p]).waveStorage = Val(info[p]).waveStorage
    ]_vars

\* the second block of a feed() has been written while another WavePlayer's
\* feed() holds its lock
C8_Witness ==
    /\ th["p1"].pc \in {"forward", "sweep"}
    /\ Len(stored["p1"]) = 2
    /\ th["p2"].pc = "locked"
    /\ now > 0

\* C9: when the loop of a recording feed() is over, _original_feed has received
\* exactly the caller's bytes, in order, and the caller's onDone once.
C9_PlaybackUnaltered ==
    \A p \in WavePlayers :
        th[p].pc = "sweep" =>
            /\ Concat(Forwarded(p)) = CallerBytes(th[p].data, th[p].size)
            /\ th[p].onDone # None =>
                  Cardinality({i \in 1..Len(fed[p]) : fed[p][i].onDone = th[p].onDone}) = 1


\* ------------------------------------------------------------------------
\* _sysaudio.py: SystemAudioRecorder, its capture thread and its owner.

NS_PER_REFTIME == 100

MaxCaptures == 2      \* GetBuffer calls that return frames
MaxRecMarkers == 1    \* markers the callbacks add

nChannels == 1                    \* of the device's mix format
nSamplesPerSec == 4
recorder_max_duration_sec == 1    \* the max_duration_sec given to __init__
QpcStep == 1000000                \* device clock between two packets, in 100 ns units
FrameCounts == {1, 2}             \* frames of one packet
OpenOutcomes == {"ok", "Activate raises", "Initialize raises"}
BufferOutcomes == {"empty", "frames", "COMError", "ReleaseBuffer COMError", "Exception"}

\* __init__, lines 63-66, with the capture thread not yet made.  _isStopped does
\* not exist before start(); nothing reads it before start() has set it.
SystemAudioRecorder ==
    [isStopped |-> FALSE, wavestorage |-> None, thread |-> "none",
     gestureRegistered |-> FALSE, speechRegistered |-> FALSE,
     audClient |-> "None", qpc |-> 0, captured |-> 0, ncaptures |-> 0, late |-> FALSE,
     resumed |-> FALSE]

InitRecorder ==
    /\ rec = SystemAudioRecorder
    /\ app = "created"
    /\ call = NoCall
    /\ NoStorage
    /\ NoTracker
    /\ NoLocking
    /\ NoPlugin

\* start(), lines 156-159
Start ==
    /\ app = "created"
    /\ rec' = [rec EXCEPT !.isStopped = FALSE, !.thread = "register"]
    /\ app' = "started"
    /\ UNCHANGED <<call, notRecorder>>

\* stop(), line 162
StopFlag ==
    /\ app = "started"
    /\ rec' = [rec EXCEPT !.isStopped = TRUE]
    /\ app' = "joining"
    /\ UNCHANGED <<call, notRecorder>>

\* a stop() that does not wait for the thread
joined_nowait(r) == TRUE

\* Thread.join() returns when the thread's target has returned
joined(r) == r.thread = "done"

\* stop(), line 163
StopJoin ==
    /\ app = "joining"
    /\ joined(rec)
    /\ app' = "stopped"
    /\ UNCHANGED <<rec, call, notRecorder>>

\* _captureThread, lines 121-123
Register ==
    /\ rec.thread = "register"
    /\ rec' = [rec EXCEPT !.gestureRegistered = TRUE, !.speechRegistered = TRUE,
                          !.audClient = "None", !.thread = "open"]
    /\ UNCHANGED <<app, call, notRecorder>>

\* an _openDevice that makes a new storage each time it is called
openDevice_fresh(r, outcome) ==
    IF outcome # "Activate raises"
    THEN [r EXCEPT !.wavestorage =
              Some(WaveStorage(nChannels, 2, nSamplesPerSec,
                               Some(nSamplesPerSec * recorder_max_duration_sec)))]
    ELSE r

\* _openDevice, lines 73-90: the storage is made once, before Initialize
openDevice(r, outcome) ==
    IF outcome # "Activate raises" /\ r.wavestorage = None
    THEN [r EXCEPT !.wavestorage =
              Some(WaveStorage(nChannels, 2, nSamplesPerSec,
                               Some(nSamplesPerSec * recorder_max_duration_sec)))]
    ELSE r

\* _captureThread, line 125; an exception leaves the local audClient as it was
\* and reaches the finally clause through line 148
Open ==
    /\ rec.thread = "open"
    /\ \E outcome \in OpenOutcomes :
          rec' = IF outcome = "ok"
                 THEN [openDevice(rec, outcome) EXCEPT !.audClient = "initialized",
                                                       !.thread = "start"]
                 ELSE [openDevice(rec, outcome) EXCEPT !.thread = "finally"]
    /\ UNCHANGED <<app, call, notRecorder>>

\* _captureThread, line 127
StartClient ==
    /\ rec.thread = "start"
    /\ rec' = [rec EXCEPT !.audClient = "started", !.thread = "loop"]
    /\ UNCHANGED <<app, call, notRecorder>>

\* _captureThread, line 128
LoopTest ==
    /\ rec.thread = "loop"
    /\ rec' = [rec EXCEPT !.thread = IF rec.isStopped THEN "finally" ELSE "getbuffer"]
    /\ UNCHANGED <<app, call, notRecorder>>

\* _captureThread, lines 136-141: the packet is written with the device's time
capture(r, frameCount) ==
    LET data == Bytes(r.captured + 1, frameCount * nChannels * 2)
    IN  [r EXCEPT !.wavestorage = Some(write(Val(r.wavestorage), data,
                                             Some(r.qpc * NS_PER_REFTIME))),
                  !.captured = r.captured + Len(data),
                  !.ncaptures = r.ncaptures + 1,
                  !.qpc = r.qpc + QpcStep,
                  !.late = r.late \/ r.isStopped,
                  !.thread = "loop"]

\* _captureThread, lines 129-149
GetBuffer ==
    /\ rec.thread = "getbuffer"
    /\ \E outcome \in BufferOutcomes :
          \/ /\ outcome = "empty"
             /\ rec' = [rec EXCEPT !.thread = "loop"]
          \/ /\ outcome = "frames"
             /\ rec.ncaptures < MaxCaptures
             /\ \E frameCount \in FrameCounts : rec' = capture(rec, frameCount)
          \/ /\ outcome = "ReleaseBuffer COMError"
             /\ rec.ncaptures < MaxCaptures
             /\ \E frameCount \in FrameCounts :
                   rec' = [capture(rec, frameCount) EXCEPT !.thread = "reopen"]
          \/ /\ outcome = "COMError"
             /\ rec' = [rec EXCEPT !.thread = "reopen"]
          \/ /\ outcome = "Exception"
             /\ rec' = [rec EXCEPT !.thread = "finally"]
    /\ UNCHANGED <<app, call, notRecorder>>

\* _captureThread, line 145, in the handler of COMError
Reopen ==
    /\ rec.thread = "reopen"
    /\ \E outcome \in OpenOutcomes :
          rec' = IF outcome = "ok"
                 THEN [openDevice(rec, outcome) EXCEPT !.audClient = "initialized",
                                                       !.thread = "restart"]
                 ELSE [openDevice(rec, outcome) EXCEPT !.thread = "finally"]
    /\ UNCHANGED <<app, call, notRecorder>>

\* _captureThread, lines 146-147
Restart ==
    /\ rec.thread = "restart"
    /\ rec' = [rec EXCEPT !.audClient = "started", !.thread = "loop", !.resumed = TRUE]
    /\ UNCHANGED <<app, call, notRecorder>>

\* a finally clause that leaves the speech handler registered
Finally_leak ==
    /\ rec.thread = "finally"
    /\ rec' = [rec EXCEPT !.gestureRegistered = FALSE,
                          !.audClient = IF rec.audClient = "None" THEN "None"
                                        ELSE "stopped",
                          !.thread = "done"]
    /\ UNCHANGED <<app, call, notRecorder>>

\* _captureThread, lines 150-154
Finally ==
    /\ rec.thread = "finally"
    /\ rec' = [rec EXCEPT !.gestureRegistered = FALSE, !.speechRegistered = FALSE,
                          !.audClient = IF rec.audClient = "None" THEN "None"
                                        ELSE "stopped",
                          !.thread = "done"]
    /\ UNCHANGED <<app, call, notRecorder>>

\* the marker a callback adds, at the present time of the device clock
mark(r, text) ==
    IF r.wavestorage = None THEN r
    ELSE [r EXCEPT !.wavestorage =
              Some(addmarker_at_time(Val(r.wavestorage), r.qpc * NS_PER_REFTIME, text))]

\* _add_speech_marker, lines 108-113, called by pre_speech.notify while registered
SpeechNotify ==
    /\ rec.speechRegistered
    /\ rec.wavestorage # None => Len(Val(rec.wavestorage).markers) < MaxRecMarkers
    /\ rec' = mark(rec, "#1: text")
    /\ UNCHANGED <<app, call, notRecorder>>

\* _add_gesture_marker, lines 115-118, called by decide_executeGesture while registered
GestureNotify ==
    /\ rec.gestureRegistered
    /\ rec.wavestorage # None => Len(Val(rec.wavestorage).markers) < MaxRecMarkers
    /\ \E isModifier \in BOOLEAN :
          rec' = IF isModifier THEN rec ELSE mark(rec, "kb:a")
    /\ UNCHANGED <<app, call, notRecorder>>

NextRecorder ==
    \/ Start
    \/ StopFlag
    \/ StopJoin
    \/ Register
    \/ Open
    \/ StartClient
    \/ LoopTest
    \/ GetBuffer
    \/ Reopen
    \/ Restart
    \/ Finally
    \/ SpeechNotify
    \/ GestureNotify

SpecRecorder == InitRecorder /\ [][NextRecorder]_vars

\* C5: stop() returns only with the stop flag set and the capture thread
\* terminated, and once stop() has returned the recorder's storage is never
\* written again.
C5_StopGuarantee ==
    [][/\ app' = "stopped" => rec'.isStopped /\ rec'.thread = "done"
       /\ app = "stopped" => rec'.wavestorage = rec.wavestorage
    ]_vars

\* stop() has returned on a recorder whose thread wrote a packet after the flag
\* was set and before it tested the flag
C5_Witness ==
    /\ app = "stopped"
    /\ rec.late
    /\ Val(rec.wavestorage).nsampleswritten > 0


\* C15: an open of the device that fails, at start-up or after a fault, does
\* not end the capture thread unless stop() was requested: the thread goes on
\* to open again.
C15_OpenFailureRetried ==
    [][rec.thread \in {"open", "reopen"} /\ rec'.thread \notin {"start", "restart"} =>
          \/ rec'.thread \in {"open", "reopen"}
          \/ rec.isStopped
    ]_vars

\* C16: the reopen after a device fault (lines 142-147) leaves the recorder's
\* WaveStorage as it was, geometry, capacity, buffer, frame count, anchor and
\* markers, and when it succeeds the loop goes on to its next test and poll.
C16_ReopenPreserves ==
    [][/\ rec.thread = "reopen" /\ rec'.thread # "reopen" =>
            /\ rec'.wavestorage = rec.wavestorage
            /\ rec'.wavestorage # None
            /\ rec'.thread \in {"restart", "finally"}
       /\ rec.thread = "restart" /\ rec'.thread # "restart" =>
            /\ rec'.wavestorage = rec.wavestorage
            /\ rec'.thread = "loop"
            /\ rec'.audClient = "started"
    ]_vars

\* the loop polls again after a reopen, with the frames and the marker
\* recorded before it still in the storage
C16_Witness ==
    /\ rec.resumed
    /\ rec.thread = "getbuffer"
    /\ Val(rec.wavestorage).nsampleswritten > 0
    /\ Len(Val(rec.wavestorage).markers) > 0

Registered(r) == r.gestureRegistered \/ r.speechRegistered

\* C17: the speech and gesture handlers are registered only while the capture
\* thread runs, both or neither; however the thread ends, neither is registered
\* once it has ended; markers are added to the recorder's storage only while
\* they are registered, and none after stop() has returned.
C17_SubscriptionLifetime ==
    [][/\ rec'.gestureRegistered = rec'.speechRegistered
       /\ Registered(rec') => rec'.thread \notin {"none", "register", "done"}
       /\ rec'.thread = "done" => ~Registered(rec')
       /\ app' = "stopped" => ~Registered(rec')
       /\ (rec.wavestorage # None /\ rec'.wavestorage # None
           /\ Val(rec'.wavestorage).markers # Val(rec.wavestorage).markers)
             => Registered(rec) /\ app # "stopped"
    ]_vars

\* stop() has returned on a recorder that recorded frames and a marker
C17_Witness ==
    /\ app = "stopped"
    /\ rec.thread = "done"
    /\ ~Registered(rec)
    /\ rec.wavestorage # None
    /\ Len(Val(rec.wavestorage).markers) > 0
    /\ Val(rec.wavestorage).nsampleswritten > 0

\* the thread has ended on a failed open, before stop() was called
C17_WitnessFailedOpen ==
    /\ app = "started"
    /\ rec.thread = "done"
    /\ rec.audClient = "None"
    /\ ~Registered(rec)

\* ------------------------------------------------------------------------
\* The calls that change a WaveStorage, statement by statement, with the
\* threads that make them and the lock each call site takes.

MaxOps == 3    \* calls begun in all

\* the thread of the host that runs the extension points' handlers and stops
\* WavePlayers, the thread that feeds a WavePlayer, and SystemAudioCaptureThread
Threads == {"main", "synth", "capture"}

\* the call sites: the storage they change, whether they hold its lock, the
\* WaveStorage method they call
Sites ==
    [feed    |-> [thread |-> "synth", k |-> "player", lock |-> TRUE, method |-> "write"],
     sync    |-> [thread |-> "synth", k |-> "player", lock |-> TRUE, method |-> "addmarker"],
     stop    |-> [thread |-> "main", k |-> "player", lock |-> TRUE, method |-> "addmarker"],
     speech  |-> [thread |-> "main", k |-> "player", lock |-> FALSE, method |-> "addmarker"],
     capture |-> [thread |-> "capture", k |-> "recorder", lock |-> FALSE,
                  method |-> "write"],
     recorder_speech  |-> [thread |-> "main", k |-> "recorder", lock |-> FALSE,
                           method |-> "addmarker_at_time"],
     recorder_gesture |-> [thread |-> "main", k |-> "recorder", lock |-> FALSE,
                           method |-> "addmarker_at_time"]]

OpTime == 100000000    \* perf_counter_ns between two calls

NoOp == [site |-> "", k |-> "", lock |-> FALSE, data |-> <<>>, ts |-> None, pruned |-> <<>>]

InitLocking ==
    /\ storages = [player   |-> WaveStorage(1, 1, 2, Some(2)),
                   recorder |-> WaveStorage(1, 2, 10, Some(10))]
    /\ locks = [player |-> None, recorder |-> None]
    /\ at = [t \in Threads |-> "idle"]
    /\ loc = [t \in Threads |-> NoOp]
    /\ nops = 0
    /\ issued = [player |-> <<>>, recorder |-> <<>>]
    /\ call = NoCall
    /\ NoStorage
    /\ NoTracker
    /\ NoRecorder
    /\ NoPlugin

\* the call is entered; `with player.lock` waits for the lock and takes it
Begin(t, site) ==
    LET c == Sites[site]
    IN  /\ at[t] = "idle"
        /\ c.thread = t
        /\ nops < MaxOps
        /\ c.lock => locks[c.k] = None
        /\ locks' = IF c.lock THEN [locks EXCEPT ![c.k] = Some(t)] ELSE locks
        /\ at' = [at EXCEPT ![t] = IF c.method = "write" THEN "buffer" ELSE "append"]
        /\ loc' = [loc EXCEPT ![t] =
                     [site |-> site, k |-> c.k, lock |-> c.lock,
                      data |-> IF c.method = "write"
                               THEN Bytes(1 + 2 * nops, storages[c.k].framesize)
                               ELSE <<>>,
                      ts |-> IF c.k = "recorder" THEN Some(nops * OpTime) ELSE None,
                      pruned |-> <<>>]]
        /\ nops' = nops + 1
        /\ UNCHANGED <<storages, issued, notLocking>>

\* the call returns; the with statement releases the lock
End(t) ==
    /\ at' = [at EXCEPT ![t] = "idle"]
    /\ loc' = [loc EXCEPT ![t] = NoOp]
    /\ locks' = IF loc[t].lock THEN [locks EXCEPT ![loc[t].k] = None] ELSE locks

Stay(t, next) ==
    /\ at' = [at EXCEPT ![t] = next]
    /\ UNCHANGED <<loc, locks>>

\* write(), lines 55-87
WriteBuffer(t) ==
    /\ at[t] = "buffer"
    /\ LET al == write_align(storages[loc[t].k], loc[t].data)
       IN  storages' = [storages EXCEPT ![loc[t].k] = write_buffer(al[1], al[2])]
    /\ Stay(t, "count")
    /\ UNCHANGED <<nops, issued, notLocking>>

\* write(), line 88
WriteCount(t) ==
    /\ at[t] = "count"
    /\ storages' = [storages EXCEPT ![loc[t].k] = write_count(@, Len(loc[t].data))]
    /\ Stay(t, "anchor")
    /\ UNCHANGED <<nops, issued, notLocking>>

\* write(), lines 89-91
WriteAnchor(t) ==
    /\ at[t] = "anchor"
    /\ storages' = [storages EXCEPT
                      ![loc[t].k] = write_anchor(@, Len(loc[t].data), loc[t].ts)]
    /\ End(t)
    /\ UNCHANGED <<nops, issued, notLocking>>

\* addmarker, line 35, and addmarker_at_time, lines 40-45: the position is
\* computed and the marker appended
append_marker(s, perf_counter_ns, text) ==
    LET pos == IF perf_counter_ns = None \/ s.perf_counter_ns = None
               THEN s.nsampleswritten
               ELSE s.nsampleswritten + sample_offset(s, Val(perf_counter_ns))
    IN  [s EXCEPT !.markers = Append(@, <<pos, text>>)]

MarkAppend(t) ==
    /\ at[t] = "append"
    /\ storages' = [storages EXCEPT
                      ![loc[t].k] = append_marker(@, loc[t].ts, loc[t].site)]
    /\ issued' = [issued EXCEPT
                    ![loc[t].k] = Append(@, Last(storages'[loc[t].k].markers))]
    /\ Stay(t, "prune")
    /\ UNCHANGED <<nops, notLocking>>

\* _remove_old_markers, lines 28-31: the list of the markers to keep is built
PruneRead(t) ==
    /\ at[t] = "prune"
    /\ loc' = [loc EXCEPT ![t].pruned = remove_old_markers(storages[loc[t].k]).markers]
    /\ at' = [at EXCEPT ![t] = "assign"]
    /\ UNCHANGED <<storages, locks, nops, issued, notLocking>>

\* _remove_old_markers, line 31: the list built is stored in _markers
PruneAssign(t) ==
    /\ at[t] = "assign"
    /\ storages' = [storages EXCEPT ![loc[t].k].markers = loc[t].pruned]
    /\ End(t)
    /\ UNCHANGED <<nops, issued, notLocking>>

NextLocking ==
    \/ \E t \in Threads, site \in DOMAIN Sites : Begin(t, site)
    \/ \E t \in Threads : WriteBuffer(t)
    \/ \E t \in Threads : WriteCount(t)
    \/ \E t \in Threads : WriteAnchor(t)
    \/ \E t \in Threads : MarkAppend(t)
    \/ \E t \in Threads : PruneRead(t)
    \/ \E t \in Threads : PruneAssign(t)

SpecLocking == InitLocking /\ [][NextLocking]_vars

\* the thread has executed a statement of a mutation and has more to execute
Midway(t) == at[t] \in {"count", "anchor", "prune", "assign"}

\* the thread executes a statement of a mutation in this step
Mutates(t) == at[t] # "idle" /\ at'[t] # at[t]

\* C6: every statement of a mutation of a storage is executed by a thread that
\* holds that storage's lock; no two threads are midway through mutations of
\* the same storage; and no marker position is computed while a write() of the
\* same storage is between its first and its last statement.
C6_PerStorageLinearization ==
    [][\A t \in Threads :
          /\ Mutates(t) => locks[loc[t].k] = Some(t)
          /\ \A u \in Threads \ {t} :
                Midway(t)' /\ Midway(u)' => loc'[t].k # loc'[u].k
          /\ at[t] = "append" /\ at'[t] = "prune" =>
                \A u \in Threads \ {t} :
                    at[u] \in {"count", "anchor"} => loc[u].k # loc[t].k
    ]_vars

\* the number of times m is in the sequence
Count(seq, m) == Cardinality({i \in 1..Len(seq) : seq[i] = m})

\* the first frame the storage retains, line 29
firstframe(s) == s.nsampleswritten - Val(s.maxframes)

\* C21: once every call has returned, each marker that was appended to a
\* storage and whose position is within the storage's retained window is in
\* the storage's marker list, as many times as it was appended.
C21_NoMarkerLost ==
    (\A t \in Threads : at[t] = "idle") =>
        \A k \in DOMAIN storages :
            \A i \in 1..Len(issued[k]) :
                issued[k][i][1] >= firstframe(storages[k]) =>
                    Count(storages[k].markers, issued[k][i]) >=
                        Count(issued[k], issued[k][i])


\* ------------------------------------------------------------------------
\* __init__.py and _nvdaaudio.py: the GlobalPlugin's startCapture, stopCapture
\* and terminate, the methods of WavePlayer they replace, the speech
\* notifications of the host and the feeds of the synthesizer's thread.

MaxSessions == 2    \* startCapture calls that start a recording
MaxFeeds == 2       \* feed() calls
MaxSpeech == 2      \* speech notifications the plugin's handler receives

TrackerDuration == 80     \* the max_duration_sec startCapture gives _nvdaaudio.start
DefaultDuration == 30     \* _max_duration_sec when the module is loaded
FeedSizes == {0, 2}       \* bytes of one feed()

\* __init__, lines 25-29, with WavePlayer as the host defines it
GlobalPlugin ==
    [isRecording |-> FALSE, speechNum |-> 0, speechHandler |-> FALSE,
     sysRecorder |-> "none", feed |-> "original", sync |-> "original",
     stop |-> "original", subscribed |-> FALSE, iter |-> None, saved |-> <<>>,
     sessions |-> 0, nfeeds |-> 0]

InitPlugin ==
    /\ plugin = GlobalPlugin
    /\ players = {}
    /\ info = [p \in WavePlayers |-> None]
    /\ player_num = 1
    /\ max_duration_sec = DefaultDuration
    /\ now = 0
    /\ th = <<>> /\ fed = <<>> /\ stored = <<>>
    /\ call = [op |-> "init", done |-> FALSE]
    /\ NoStorage
    /\ NoRecorder
    /\ NoLocking

\* _nvdaaudio.stop that restores feed and stop and forgets sync
nvdaaudio_stop_partial(g) ==
    [g EXCEPT !.feed = "original", !.stop = "original", !.subscribed = FALSE]

\* _nvdaaudio.stop, lines 141-145
nvdaaudio_stop(g) ==
    [g EXCEPT !.feed = "original", !.sync = "original", !.stop = "original",
              !.subscribed = FALSE]

\* _nvdaaudio.start, lines 130-138, on the plugin's side; _player_num and
\* _max_duration_sec are set by the action
nvdaaudio_start(g) ==
    [g EXCEPT !.feed = "_player_feed", !.sync = "_player_sync", !.stop = "_player_stop",
              !.subscribed = TRUE]

\* startCapture, lines 48-59
StartCapture ==
    /\ plugin.iter = None
    /\ IF plugin.isRecording
       THEN /\ call' = [op |-> "startCapture", done |-> FALSE]
            /\ UNCHANGED <<plugin, player_num, max_duration_sec>>
       ELSE /\ plugin.sessions < MaxSessions
            /\ plugin' = [nvdaaudio_start(plugin) EXCEPT
                            !.speechNum = 0, !.speechHandler = TRUE,
                            !.sysRecorder = "started", !.isRecording = TRUE,
                            !.sessions = @ + 1]
            /\ player_num' = 1
            /\ max_duration_sec' = TrackerDuration
            /\ call' = [op |-> "startCapture", done |-> TRUE]
    /\ UNCHANGED <<players, info, now, notPlugin>>

\* saveFiles, lines 72-91: savetodir is reached when the recorder's file was
\* written; it writes one file for each entry of _players, under its fileName
saveFiles(g, recorderSaved) ==
    [g EXCEPT !.sysRecorder = IF recorderSaved THEN "none" ELSE "stopped",
              !.saved = IF recorderSaved
                        THEN [k \in players |-> Val(info[k]).fileName]
                        ELSE <<>>]

\* stopCapture, lines 61-70
stopCapture(g, recorderSaved) ==
    saveFiles([nvdaaudio_stop(g) EXCEPT !.speechHandler = FALSE, !.isRecording = FALSE],
              recorderSaved)

StopCapture ==
    /\ plugin.iter = None
    /\ IF plugin.isRecording
       THEN /\ \E recorderSaved \in BOOLEAN : plugin' = stopCapture(plugin, recorderSaved)
            /\ call' = [op |-> "stopCapture", done |-> TRUE]
       ELSE /\ call' = [op |-> "stopCapture", done |-> FALSE]
            /\ UNCHANGED plugin
    /\ UNCHANGED <<players, info, player_num, max_duration_sec, now, notPlugin>>

\* terminate, lines 31-33
Terminate ==
    /\ plugin.iter = None
    /\ IF plugin.isRecording
       THEN /\ \E recorderSaved \in BOOLEAN : plugin' = stopCapture(plugin, recorderSaved)
            /\ call' = [op |-> "terminate", done |-> TRUE]
       ELSE /\ call' = [op |-> "terminate", done |-> FALSE]
            /\ UNCHANGED plugin
    /\ UNCHANGED <<players, info, player_num, max_duration_sec, now, notPlugin>>


\* the label _add_speech_marker builds, line 127: the number and the text items
SpeechLabel(number) == <<"#", number, ": ", "text">>

\* _speechHandler, lines 43-46, called by the host's pre_speech while
\* registered; its notify() enters _add_speech_marker, whose loop over
\* _players.values() (line 126) starts with the entries there are
Speak ==
    /\ plugin.speechHandler
    /\ plugin.iter = None
    /\ plugin.speechNum < MaxSpeech
    /\ plugin' = [plugin EXCEPT
                    !.speechNum = @ + 1,
                    !.iter = IF plugin.subscribed
                             THEN Some([number |-> plugin.speechNum + 1,
                                        todo |-> players,
                                        size |-> Cardinality(players),
                                        start |-> players,
                                        before |-> [k \in players |->
                                            Len(Val(info[k]).waveStorage.markers)]])
                             ELSE None]
    /\ call' = [op |-> "speech", done |-> TRUE]
    /\ UNCHANGED <<players, info, player_num, max_duration_sec, now, notPlugin>>

\* _add_speech_marker, lines 126-127: one turn of the loop.  The iterator of a
\* dict raises RuntimeError when the dict has changed size since the loop
\* began; the order of the entries is left open here.
FanOut ==
    /\ plugin.iter # None
    /\ LET it == Val(plugin.iter)
       IN  IF Cardinality(players) # it.size
           THEN /\ plugin' = [plugin EXCEPT !.iter = None]
                /\ call' = [op |-> "RuntimeError", done |-> FALSE]
                /\ UNCHANGED info
           ELSE IF it.todo = {}
           THEN /\ plugin' = [plugin EXCEPT !.iter = None]
                /\ call' = [op |-> "speech returns", done |-> TRUE]
                /\ UNCHANGED info
           ELSE \E k \in it.todo :
                /\ info' = [info EXCEPT
                              ![k] = Some([Val(@) EXCEPT
                                  !.waveStorage = addmarker(@, SpeechLabel(it.number))])]
                /\ plugin' = [plugin EXCEPT
                                !.iter = Some([it EXCEPT !.todo = @ \ {k}])]
                /\ call' = [op |-> "marker", done |-> TRUE]
    /\ UNCHANGED <<players, player_num, max_duration_sec, now, notPlugin>>

\* _player_feed, lines 96-100: the blocks of d from offset i on, written in turn
RECURSIVE feed_blocks(_, _, _, _)
feed_blocks(s, d, i, p) ==
    IF i >= Len(d) THEN s
    ELSE feed_blocks(write(s, Slice(d, i, i + maxblocksize(p)), None), d,
                     i + maxblocksize(p), p)

\* WavePlayer.feed as the synthesizer's thread calls it: _player_feed, lines
\* 51-106, when startCapture has installed it, the host's feed otherwise
Feed(p, n) ==
    LET data == Buffer(Bytes(1, n))
        d    == normalize(data, None)
    IN  /\ plugin.nfeeds < MaxFeeds
        /\ plugin' = [plugin EXCEPT !.nfeeds = @ + 1]
        /\ IF plugin.feed = "_player_feed" /\ purpose(p) = "SPEECH" /\ ~falsy(d)
           THEN LET entry == IF p \in players THEN Val(info[p])
                             ELSE PlayerInfo(p, player_num, now, max_duration_sec)
                    after == [info EXCEPT ![p] = Some([entry EXCEPT
                                 !.waveStorage = feed_blocks(@, Val(d), 0, p),
                                 !.lastActivePerfCounter = now])]
                IN  /\ info' = after
                    /\ players' = {k \in players \cup {p} :
                                      ~expired(Val(after[k]), now, max_duration_sec)}
                    /\ player_num' = IF p \in players THEN player_num ELSE player_num + 1
                    /\ call' = [op |-> "feed", done |-> TRUE]
           ELSE /\ call' = [op |-> "feed", done |-> FALSE]
                /\ UNCHANGED <<players, info, player_num>>
        /\ UNCHANGED <<max_duration_sec, now, notPlugin>>

NextPlugin ==
    \/ StartCapture
    \/ StopCapture
    \/ Terminate
    \/ Speak
    \/ FanOut
    \/ \E p \in WavePlayers, n \in FeedSizes : Feed(p, n)

SpecPlugin == InitPlugin /\ [][NextPlugin]_vars


Installed(g) ==
    /\ g.feed = "_player_feed" /\ g.sync = "_player_sync" /\ g.stop = "_player_stop"
    /\ g.subscribed

Original(g) ==
    /\ g.feed = "original" /\ g.sync = "original" /\ g.stop = "original"
    /\ ~g.subscribed

\* C18: after every startCapture, stopCapture and terminate the three
\* intercepts and the tracker's speech subscription are installed when a
\* recording is active and the original methods are in place, without the
\* subscription, when none is; startCapture while recording and stopCapture or
\* terminate while not recording change nothing; a startCapture that starts a
\* recording sets _player_num to 1.
C18_InterceptLifecycle ==
    [][/\ plugin'.isRecording => Installed(plugin')
       /\ ~plugin'.isRecording => Original(plugin')
       /\ (call'.op = "startCapture" /\ plugin.isRecording) =>
             UNCHANGED <<plugin, players, info, player_num, max_duration_sec>>
       /\ (call'.op \in {"stopCapture", "terminate"} /\ ~plugin.isRecording) =>
             UNCHANGED <<plugin, players, info, player_num, max_duration_sec>>
       /\ (call'.op = "startCapture" /\ ~plugin.isRecording) =>
             plugin'.isRecording /\ player_num' = 1
       /\ (call'.op \in {"stopCapture", "terminate"} /\ plugin.isRecording) =>
             ~plugin'.isRecording
    ]_vars

\* a second recording starts, after a first one that named a WavePlayer was
\* stopped: the counter is back at 1 and the intercepts are installed again
C18_Witness ==
    /\ call = [op |-> "startCapture", done |-> TRUE]
    /\ plugin.sessions = 2
    /\ plugin.isRecording
    /\ players # {}
    /\ player_num = 1

\* stopCapture has just ended a recording
C18_WitnessStopped ==
    /\ call = [op |-> "stopCapture", done |-> TRUE]
    /\ Original(plugin)
    /\ players # {}

\* C20: no two entries of _players have the same fileName, and savetodir
\* writes no file twice.
C20_UniqueNames ==
    /\ \A k1 \in players : \A k2 \in players \ {k1} :
          Val(info[k1]).fileName # Val(info[k2]).fileName
    /\ \A k1 \in DOMAIN plugin.saved : \A k2 \in DOMAIN plugin.saved \ {k1} :
          plugin.saved[k1] # plugin.saved[k2]


Markers(inf, k) == Val(inf[k]).waveStorage.markers

\* C19: the speech notifications of one recording are numbered 1, 2, 3, ... in
\* the order they arrive; each turn of the handler's loop appends one marker
\* with the number and the text to one tracked entry, at that entry's
\* totalFramesWritten, and touches nothing else; when the handler ends, every
\* entry that was tracked when the notification arrived has got exactly one
\* marker, the notification's, and an entry made since has got none.
C19_SpeechFanOut ==
    [][/\ (call'.op = "startCapture" /\ call'.done) => plugin'.speechNum = 0
       /\ call'.op = "speech" =>
             /\ plugin'.speechNum = plugin.speechNum + 1
             /\ plugin'.iter # None
             /\ Val(plugin'.iter).number = plugin'.speechNum
             /\ Val(plugin'.iter).start = players
       /\ call'.op = "marker" =>
             \E k \in players :
                /\ Markers(info', k) =
                      Append(Markers(info, k),
                             <<Val(info[k]).waveStorage.nsampleswritten,
                               SpeechLabel(Val(plugin.iter).number)>>)
                /\ info' = [info EXCEPT ![k] = Some([Val(@) EXCEPT
                               !.waveStorage.markers = Markers(info', k)])]
       /\ (plugin.iter # None /\ plugin'.iter = None) =>
             LET it == Val(plugin.iter)
             IN  /\ \A k \in it.start :
                       /\ k \in players'
                       /\ Len(Markers(info', k)) = it.before[k] + 1
                       /\ Last(Markers(info', k))[2] = SpeechLabel(it.number)
                 /\ \A k \in players' \ it.start : Markers(info', k) = <<>>
    ]_vars

====
